---- MODULE Spec2Model ----
(***************************************************************************)
(* The upload -> decode -> separate -> render -> offer pipeline of         *)
(* src/speech.py (a Streamlit script), as a state machine.                 *)
(*                                                                         *)
(* One script run of main() handles one uploaded file.  pc is the position *)
(* of the run in the code; every library call that can raise is one step   *)
(* that either succeeds or raises, and an exception goes to the except     *)
(* clause that encloses the position (Handler).  The temporary directory   *)
(* (files) and the st.cache_resource cache (modelCache) outlive a run.     *)
(***************************************************************************)
EXTENDS Integers, FiniteSets, TLC

\* Number of uploads handled in the lifetime of the process.
MaxRequests == 2
\* Largest number of items the opaque separator returns (len(est_sources)).
MaxSources == 2
\* Output rate of the pretrained model "speechbrain/sepformer-wsj02mix".
ModelSampleRate == 8000
\* Sample rates found in the header of an uploaded WAV file.
SampleRates == {8000, 16000, 44100}

VARIABLES
    pc,                 \* position of the current run of main()
    req,                \* number of uploads received so far
    uploaded_file,      \* the upload: is it decodable audio, and its header rate
    files,              \* temporary files that exist on disk
    modelCache,         \* st.cache_resource entry of load_separation_model
    original_signal,    \* main: "None" or "signal"
    sample_rate,        \* main: 0 (None) or the rate sf.read returned
    separated_signals,  \* main: None, or the number of items of est_sources
    i,                  \* loop index of the running enumerate(..., 1) loop
    messages,           \* st.error texts shown in this run
    success,            \* st.success("Speech Separation Complete!") was shown
    reason,             \* kind of the last exception raised in this run
    stage,              \* stage in which the run failed
    created,            \* per kind: NamedTemporaryFile creations in this run
    deleted,            \* per kind: os.unlink calls that removed a file in this run
    artifacts,          \* WAV files written by sf.write for download: index, rate
    offered,            \* indices whose download button was rendered
    loadCalls,          \* calls of load_separation_model in this run
    sepCalls,           \* calls of model.separate_file in this run
    initAttempts,       \* calls of SepformerSeparation.from_hparams in this run
    initFailures        \* from_hparams calls that raised, over the process lifetime

vars == <<pc, req, uploaded_file, files, modelCache, original_signal, sample_rate,
          separated_signals, i, messages, success, reason, stage, created, deleted,
          artifacts, offered, loadCalls, sepCalls, initAttempts, initFailures>>

\* Variables an except clause writes.
ctl == <<reason, stage, messages, original_signal, sample_rate>>
\* Variables of the temporary directory.
disk == <<files, created, deleted>>
\* Variables of the model cache.
cache == <<modelCache, initAttempts, initFailures>>
\* Everything else a step may leave alone.
run == <<req, uploaded_file, separated_signals, i, success, artifacts, offered,
         loadCalls, sepCalls>>

NoneResult == [none |-> TRUE, n |-> 0]
NoUpload == [valid |-> FALSE, rate |-> 0]
Zero == [ingest |-> 0, sep |-> 0, dl |-> 0]

\* The name of a temporary file: NamedTemporaryFile gives every file a fresh name.
F(tag, k) == <<req, tag, k>>

IngestPcs == {"sra_stage", "sra_read", "sra_unlink", "ingest_check"}
SeparatePcs == {"load", "ss_stage", "ss_separate", "ss_unlink", "ss_except_unlink", "check"}
RenderPcs == {"waveform", "spec_orig", "spec_sep", "metric_orig", "metric_sep"}
OfferPcs == {"offer_orig", "offer_write", "offer_audio", "offer_download", "offer_unlink"}
Terminal == {"Done", "Failed"}

\* The stage of the pipeline a position belongs to.
StageOf(p) ==
    CASE p \in IngestPcs -> "ingest"
      [] p \in SeparatePcs -> "separation"
      [] p \in RenderPcs -> "rendering"
      [] p \in OfferPcs -> "offering"
      [] OTHER -> "none"

\* The try block that encloses a position, by the function that holds it.
Handler_LoadOutsideTry(p) ==
    CASE p \in {"sra_stage", "sra_read", "sra_unlink"} -> "safe_read_audio"
      [] p \in {"ss_separate", "ss_unlink"} -> "separate_speech"
      [] p \in ({"ss_stage", "ss_except_unlink", "check"} \cup RenderPcs \cup OfferPcs) -> "main"
      [] OTHER -> "none"

Handler(p) ==
    CASE p \in {"sra_stage", "sra_read", "sra_unlink"} -> "safe_read_audio"
      [] p \in {"ss_separate", "ss_unlink"} -> "separate_speech"
      [] p \in ({"load", "ss_stage", "ss_except_unlink", "check"}
                    \cup RenderPcs \cup OfferPcs) -> "main"
      [] OTHER -> "none"

\* An exception of the given kind is raised at the current position: control
\* goes to the enclosing except clause, which reports it with st.error.
\*   safe_read_audio: reports, returns (None, None)
\*   separate_speech: reports, then unlinks the temporary file
\*   main:            reports "Unexpected error", the run ends
\*   none:            the exception leaves main()
Raise(kind) ==
    LET h == Handler(pc) IN
    /\ reason' = kind
    /\ CASE h = "safe_read_audio" ->
              /\ pc' = "ingest_check"
              /\ messages' = messages \cup {"Error reading audio file"}
              /\ original_signal' = "None"
              /\ sample_rate' = 0
              /\ stage' = stage
         [] h = "separate_speech" ->
              /\ pc' = "ss_except_unlink"
              /\ messages' = messages \cup {"Error in speech separation"}
              /\ UNCHANGED <<original_signal, sample_rate, stage>>
         [] h = "main" ->
              /\ pc' = "Failed"
              /\ stage' = StageOf(pc)
              /\ messages' = messages \cup {"Unexpected error"}
              /\ UNCHANGED <<original_signal, sample_rate>>
         [] OTHER ->
              /\ pc' = "Crashed"
              /\ UNCHANGED <<messages, original_signal, sample_rate, stage>>

\* The step succeeded: control moves on and no except clause runs.
Goto(p) == pc' = p /\ UNCHANGED ctl

\* tempfile.NamedTemporaryFile(delete=False) has created the file.
Create(f, tag) ==
    /\ files' = files \cup {f}
    /\ created' = [created EXCEPT ![tag] = @ + 1]
    /\ deleted' = deleted

\* os.unlink has removed the file.
Unlink(f, tag) ==
    /\ files' = files \ {f}
    /\ deleted' = [deleted EXCEPT ![tag] = @ + 1]
    /\ created' = created

Init ==
    /\ pc = "Idle"
    /\ req = 0
    /\ uploaded_file = NoUpload
    /\ files = {}
    /\ modelCache = "none"
    /\ original_signal = "None"
    /\ sample_rate = 0
    /\ separated_signals = NoneResult
    /\ i = 0
    /\ messages = {}
    /\ success = FALSE
    /\ reason = "none"
    /\ stage = "none"
    /\ created = Zero
    /\ deleted = Zero
    /\ artifacts = {}
    /\ offered = {}
    /\ loadCalls = 0
    /\ sepCalls = 0
    /\ initAttempts = 0
    /\ initFailures = 0

\* main, lines 110-124: a file is uploaded and the script runs from the top.
Upload ==
    /\ pc \in {"Idle"} \cup Terminal
    /\ req < MaxRequests
    /\ \E valid \in BOOLEAN, rate \in SampleRates :
          uploaded_file' = [valid |-> valid, rate |-> rate]
    /\ req' = req + 1
    /\ pc' = "sra_stage"
    /\ original_signal' = "None"
    /\ sample_rate' = 0
    /\ separated_signals' = NoneResult
    /\ i' = 0
    /\ messages' = {}
    /\ success' = FALSE
    /\ reason' = "none"
    /\ stage' = "none"
    /\ created' = Zero
    /\ deleted' = Zero
    /\ artifacts' = {}
    /\ offered' = {}
    /\ loadCalls' = 0
    /\ sepCalls' = 0
    /\ initAttempts' = 0
    /\ UNCHANGED <<files, modelCache, initFailures>>

\* safe_read_audio, lines 24-26: the upload is copied into a temporary file.
\* NamedTemporaryFile may raise (nothing created) or the write may raise (the
\* file exists: delete=False).
SRA_Stage ==
    /\ pc = "sra_stage"
    /\ \/ /\ Create(F("ingest", 0), "ingest")
          /\ Goto("sra_read")
       \/ /\ Create(F("ingest", 0), "ingest")
          /\ Raise("ArtifactIOError")
       \/ /\ UNCHANGED disk
          /\ Raise("ArtifactIOError")
    /\ UNCHANGED <<cache, run>>

\* safe_read_audio, line 29: sf.read decodes the file, or raises on bytes that
\* are not audio.  (original_signal, sample_rate hold the function's locals
\* until it returns; its except clause returns (None, None).)
SRA_Read ==
    /\ pc = "sra_read"
    /\ IF uploaded_file.valid
         THEN /\ pc' = "sra_unlink"
              /\ original_signal' = "signal"
              /\ sample_rate' = uploaded_file.rate
              /\ UNCHANGED <<reason, stage, messages>>
         ELSE Raise("DecodeError")
    /\ UNCHANGED <<disk, cache, run>>

\* safe_read_audio, lines 32-34: the temporary file is unlinked and the signal
\* returned.
SRA_Unlink ==
    /\ pc = "sra_unlink"
    /\ \/ /\ Unlink(F("ingest", 0), "ingest")
          /\ Goto("ingest_check")
       \/ /\ UNCHANGED disk
          /\ Raise("ArtifactIOError")
    /\ UNCHANGED <<cache, run>>

\* main, lines 126-133 and 232-233: separation starts only with a decoded signal.
CheckIngest_NoGuard ==
    /\ pc = "ingest_check"
    /\ Goto("load")
    /\ UNCHANGED <<disk, cache, run>>

CheckIngest ==
    /\ pc = "ingest_check"
    /\ IF original_signal # "None"
         THEN Goto("load")
         ELSE /\ pc' = "Failed"
              /\ stage' = "ingest"
              /\ messages' = messages \cup {"Failed to read the audio file"}
              /\ UNCHANGED <<reason, original_signal, sample_rate>>
    /\ UNCHANGED <<disk, cache, run>>

\* separate_speech, line 43, and load_separation_model, lines 16-18: the cached
\* handle is returned; without one, from_hparams builds it, and a handle is
\* cached only when from_hparams returned one.
LoadModel_CachesFailure ==
    /\ pc = "load"
    /\ loadCalls' = loadCalls + 1
    /\ CASE modelCache = "ready" ->
              /\ Goto("ss_stage")
              /\ UNCHANGED cache
         [] modelCache = "failed" ->
              /\ Raise("ModelUnavailableError")
              /\ UNCHANGED cache
         [] OTHER ->
              /\ initAttempts' = initAttempts + 1
              /\ \/ /\ modelCache' = "ready"
                    /\ Goto("ss_stage")
                    /\ UNCHANGED initFailures
                 \/ /\ modelCache' = "failed"
                    /\ initFailures' = initFailures + 1
                    /\ Raise("ModelUnavailableError")
    /\ UNCHANGED <<disk, req, uploaded_file, separated_signals, i, success,
                   artifacts, offered, sepCalls>>

LoadModel ==
    /\ pc = "load"
    /\ loadCalls' = loadCalls + 1
    /\ IF modelCache = "ready"
         THEN /\ Goto("ss_stage")
              /\ UNCHANGED cache
         ELSE /\ initAttempts' = initAttempts + 1
              /\ \/ /\ modelCache' = "ready"
                    /\ Goto("ss_stage")
                    /\ UNCHANGED initFailures
                 \/ /\ modelCache' = modelCache
                    /\ initFailures' = initFailures + 1
                    /\ Raise("ModelUnavailableError")
    /\ UNCHANGED <<disk, req, uploaded_file, separated_signals, i, success,
                   artifacts, offered, sepCalls>>

\* separate_speech, lines 46-48: the upload is copied into a temporary file,
\* outside the function's try block.
SS_Stage ==
    /\ pc = "ss_stage"
    /\ \/ /\ Create(F("sep", 0), "sep")
          /\ Goto("ss_separate")
       \/ /\ Create(F("sep", 0), "sep")
          /\ Raise("ArtifactIOError")
       \/ /\ UNCHANGED disk
          /\ Raise("ArtifactIOError")
    /\ UNCHANGED <<cache, run>>

\* separate_speech, line 52: the model separates the file into some number of
\* items, or raises.  (separated_signals holds est_sources until the return.)
SS_Separate ==
    /\ pc = "ss_separate"
    /\ sepCalls' = sepCalls + 1
    /\ \/ /\ \E n \in 0..MaxSources :
                separated_signals' = [none |-> FALSE, n |-> n]
          /\ Goto("ss_unlink")
       \/ /\ separated_signals' = separated_signals
          /\ Raise("SeparationError")
    /\ UNCHANGED <<disk, cache, req, uploaded_file, i, success, artifacts,
                   offered, loadCalls>>

\* separate_speech, lines 55-57: the temporary file is unlinked and est_sources
\* returned.
SS_Unlink ==
    /\ pc = "ss_unlink"
    /\ \/ /\ Unlink(F("sep", 0), "sep")
          /\ Goto("check")
       \/ /\ UNCHANGED disk
          /\ Raise("ArtifactIOError")
    /\ UNCHANGED <<cache, run>>

\* separate_speech, lines 58-63: the except clause unlinks the temporary file
\* and returns None.
SS_Except_NoUnlink ==
    /\ pc = "ss_except_unlink"
    /\ UNCHANGED disk
    /\ separated_signals' = NoneResult
    /\ Goto("check")
    /\ UNCHANGED <<cache, req, uploaded_file, i, success, artifacts, offered,
                   loadCalls, sepCalls>>

SS_ExceptUnlink ==
    /\ pc = "ss_except_unlink"
    /\ \/ /\ Unlink(F("sep", 0), "sep")
          /\ separated_signals' = NoneResult
          /\ Goto("check")
       \/ /\ UNCHANGED disk
          /\ separated_signals' = separated_signals
          /\ Raise("ArtifactIOError")
    /\ UNCHANGED <<cache, req, uploaded_file, i, success, artifacts, offered,
                   loadCalls, sepCalls>>

\* main, lines 137-139 and 226-227: any result that is not None is a success.
CheckSeparation ==
    /\ pc = "check"
    /\ IF ~separated_signals.none
         THEN /\ success' = TRUE
              /\ Goto("waveform")
         ELSE /\ success' = success
              /\ pc' = "Failed"
              /\ stage' = "separation"
              /\ messages' = messages \cup {"Failed to separate speech signals."}
              /\ UNCHANGED <<reason, original_signal, sample_rate>>
    /\ UNCHANGED <<disk, cache, req, uploaded_file, separated_signals, i,
                   artifacts, offered, loadCalls, sepCalls>>

\* Variables the rendering steps leave alone.
renderKeeps == <<disk, cache, req, uploaded_file, separated_signals, success,
                 artifacts, offered, loadCalls, sepCalls>>

\* Where a loop over enumerate(separated_signals, 1) goes from its head:
\* into the body with i = 1, or past the loop when there is nothing to iterate.
EnterLoop(body, after) ==
    IF separated_signals.n >= 1
      THEN Goto(body) /\ i' = 1
      ELSE Goto(after) /\ i' = 0

\* The end of a loop body: the next item, or the statement after the loop.
NextItem(body, after) ==
    IF i < separated_signals.n
      THEN Goto(body) /\ i' = i + 1
      ELSE Goto(after) /\ i' = 0

\* main, lines 146-154, and plot_waveforms, lines 66-84.  With no separated
\* signal plt.subplots(1, 1) returns a single Axes and axs[0] raises.
PlotWaveforms ==
    /\ pc = "waveform"
    /\ \/ /\ separated_signals.n >= 1
          /\ Goto("spec_orig")
       \/ Raise("RenderError")
    /\ UNCHANGED <<renderKeeps, i>>

\* main, lines 156-165: the spectrogram of the original signal.
SpecOrig ==
    /\ pc = "spec_orig"
    /\ \/ EnterLoop("spec_sep", "metric_orig")
       \/ Raise("RenderError") /\ UNCHANGED i
    /\ UNCHANGED renderKeeps

\* main, lines 167-174: the spectrogram of separated signal i.
SpecSep ==
    /\ pc = "spec_sep"
    /\ \/ NextItem("spec_sep", "metric_orig")
       \/ Raise("RenderError") /\ UNCHANGED i
    /\ UNCHANGED renderKeeps

\* main, lines 176-186: duration and peak amplitude of the original signal.
MetricOrig ==
    /\ pc = "metric_orig"
    /\ \/ EnterLoop("metric_sep", "offer_orig")
       \/ Raise("RenderError") /\ UNCHANGED i
    /\ UNCHANGED renderKeeps

\* main, lines 189-194: duration and peak amplitude of separated signal i.
MetricSep ==
    /\ pc = "metric_sep"
    /\ \/ NextItem("metric_sep", "offer_orig")
       \/ Raise("RenderError") /\ UNCHANGED i
    /\ UNCHANGED renderKeeps

\* main, lines 197-201: the player of the uploaded file itself.
OfferOrig ==
    /\ pc = "offer_orig"
    /\ IF separated_signals.n >= 1
         THEN Goto("offer_write") /\ i' = 1
         ELSE Goto("Done") /\ i' = 0
    /\ UNCHANGED renderKeeps

\* main, lines 204-210: a temporary file is created and separated signal i is
\* written into it as WAV with the sample rate read from the upload.
OfferWrite ==
    /\ pc = "offer_write"
    /\ \/ /\ Create(F("dl", i), "dl")
          /\ artifacts' = artifacts \cup {[index |-> i, rate |-> sample_rate]}
          /\ Goto("offer_audio")
       \/ /\ Create(F("dl", i), "dl")
          /\ artifacts' = artifacts
          /\ Raise("ArtifactIOError")
       \/ /\ UNCHANGED <<disk, artifacts>>
          /\ Raise("ArtifactIOError")
    /\ UNCHANGED <<cache, req, uploaded_file, separated_signals, i, success,
                   offered, loadCalls, sepCalls>>

\* main, line 213: the player of separated signal i.
OfferAudio ==
    /\ pc = "offer_audio"
    /\ \/ Goto("offer_download")
       \/ Raise("ArtifactIOError")
    /\ UNCHANGED <<renderKeeps, i>>

\* main, lines 216-222: the download button of separated_signal_<i>.wav.
OfferDownload ==
    /\ pc = "offer_download"
    /\ \/ /\ offered' = offered \cup {i}
          /\ Goto("offer_unlink")
       \/ /\ offered' = offered
          /\ Raise("ArtifactIOError")
    /\ UNCHANGED <<disk, cache, req, uploaded_file, separated_signals, i,
                   success, artifacts, loadCalls, sepCalls>>

\* main, line 225: the temporary file of separated signal i is unlinked, after
\* the with block and with no finally around it.
OfferUnlink ==
    /\ pc = "offer_unlink"
    /\ \/ /\ Unlink(F("dl", i), "dl")
          /\ IF i < separated_signals.n
               THEN Goto("offer_write") /\ i' = i + 1
               ELSE Goto("Done") /\ i' = 0
       \/ /\ UNCHANGED <<disk, i>>
          /\ Raise("ArtifactIOError")
    /\ UNCHANGED <<cache, req, uploaded_file, separated_signals, success,
                   artifacts, offered, loadCalls, sepCalls>>

\* One step of the running script.
Step ==
    \/ SRA_Stage
    \/ SRA_Read
    \/ SRA_Unlink
    \/ CheckIngest
    \/ LoadModel
    \/ SS_Stage
    \/ SS_Separate
    \/ SS_Unlink
    \/ SS_ExceptUnlink
    \/ CheckSeparation
    \/ PlotWaveforms
    \/ SpecOrig
    \/ SpecSep
    \/ MetricOrig
    \/ MetricSep
    \/ OfferOrig
    \/ OfferWrite
    \/ OfferAudio
    \/ OfferDownload
    \/ OfferUnlink

Next == Upload \/ Step

Spec == Init /\ [][Next]_vars

\* A script run is one thread executing sequentially: a started run keeps
\* taking steps until it ends.
FairSpec == Spec /\ WF_vars(Step)

(***************************************************************************)
(* Properties                                                              *)
(***************************************************************************)

\* The temporary files the current run created and has not removed.
Leftover == {f \in files : f[1] = req}

\* C1: when a run has ended (Done or Failed), every temporary file created for
\* a separated signal has been deleted: as many download artifacts were
\* deleted as were created, and none is left on disk.
C1_DownloadArtifactsReleased ==
    pc \in Terminal =>
        /\ deleted.dl = created.dl
        /\ \A f \in Leftover : f[2] # "dl"

\* C2: when safe_read_audio has returned, with a signal or with (None, None),
\* the temporary file it staged the upload into is gone; so is it when the run
\* has failed at ingest.
C2_IngestFileReleased ==
    (pc = "ingest_check" \/ (pc = "Failed" /\ stage = "ingest")) =>
        /\ deleted.ingest = created.ingest
        /\ \A f \in Leftover : f[2] # "ingest"

\* C3: the model is loaded or invoked, and the run is at or past separation,
\* only when safe_read_audio returned a decoded signal; a run that failed at
\* ingest has neither loaded nor invoked the model.
C3_NoModelWithoutDecode ==
    /\ (loadCalls > 0 \/ sepCalls > 0) => original_signal = "signal"
    /\ pc \in (SeparatePcs \cup RenderPcs \cup OfferPcs) => original_signal = "signal"
    /\ (pc = "Failed" /\ original_signal = "None") =>
          /\ stage = "ingest"
          /\ loadCalls = 0
          /\ sepCalls = 0
          /\ ~success

\* C3 witness: an upload that is not audio has ended the run at ingest.
C3_Witness ==
    /\ pc = "Failed"
    /\ stage = "ingest"
    /\ reason = "DecodeError"
    /\ loadCalls = 0

\* C5, state part: a run in which model initialization raised is Failed at
\* separation with an error shown, separate_speech created no temporary file,
\* nothing crashed, and the cache holds no handle.
C5_InitFailureState ==
    /\ modelCache \in {"none", "ready"}
    /\ (pc \in Terminal /\ reason = "ModelUnavailableError") =>
          /\ pc = "Failed"
          /\ stage = "separation"
          /\ "Unexpected error" \in messages
          /\ created.sep = 0
          /\ \A f \in Leftover : f[2] # "sep"
          /\ modelCache = "none"
          /\ sepCalls = 0

\* C5, step part: a run that asks for the model while no handle is cached
\* calls from_hparams, whatever happened before, and goes on to stage and
\* separate when that call returns a handle.
C5_InitRetried ==
    (pc = "load" /\ modelCache # "ready") =>
        /\ initAttempts' = initAttempts + 1
        /\ modelCache' = "ready" => pc' = "ss_stage"

\* C5: a failed model initialization fails the run at separation, leaves no
\* temporary file of separate_speech and caches nothing, and a later run
\* attempts the initialization again.
C5_InitFailureIsRetryable == []C5_InitFailureState /\ [][C5_InitRetried]_vars

\* C5 witness: after an earlier run failed to initialize the model, this run
\* initialized it and offered every separated signal.
C5_Witness ==
    /\ initFailures >= 1
    /\ initAttempts = 1
    /\ modelCache = "ready"
    /\ pc = "Done"
    /\ separated_signals.n >= 1
    /\ offered = 1..separated_signals.n

\* C6: when a run has ended and a rendering step raised in it after a
\* successful separation, every separated signal was still staged and offered
\* for download.
C6_RenderFailureStillOffers ==
    (pc \in Terminal /\ reason = "RenderError" /\ separated_signals.n >= 1) =>
        /\ offered = 1..separated_signals.n
        /\ created.dl = separated_signals.n

\* C7: every WAV written for a separated signal is encoded at the model's
\* output sample rate, whatever the rate of the upload.
C7_ArtifactsAtModelRate ==
    \A a \in artifacts : a.rate = ModelSampleRate

\* C8: the success message is shown, and a rendering or offering step runs,
\* only when separate_speech returned a result with at least one signal.
C8_RenderOnlyNonEmpty ==
    (success \/ pc \in (RenderPcs \cup OfferPcs)) =>
        /\ ~separated_signals.none
        /\ separated_signals.n >= 1

\* C9: when separate_speech has returned (a result or None) its temporary copy
\* of the upload was created once, deleted once and is gone; a run that failed
\* at separation because separate_file raised has left no temporary file.
C9_SeparationFileReleased ==
    /\ pc = "check" =>
          /\ created.sep = 1
          /\ deleted.sep = 1
          /\ \A f \in Leftover : f[2] # "sep"
    /\ (pc = "Failed" /\ stage = "separation" /\ reason = "SeparationError") =>
          /\ separated_signals.none
          /\ Leftover = {}

\* C9 witness: separate_file raised, the except clause removed the file and
\* the run failed at separation.
C9_Witness ==
    /\ pc = "Failed"
    /\ stage = "separation"
    /\ reason = "SeparationError"
    /\ sepCalls = 1
    /\ deleted.sep = 1

\* C10: no exception leaves main, a failed run has shown an error message, and
\* every started run ends in Done or Failed.
C10_EveryRunEnds ==
    /\ [](pc # "Crashed")
    /\ [](pc = "Failed" => messages # {})
    /\ (pc \notin ({"Idle"} \cup Terminal)) ~> (pc \in Terminal)

\* C10 witness: an exception raised while offering a download ended the run
\* in Failed with the error shown.
C10_Witness ==
    /\ pc = "Failed"
    /\ stage = "offering"
    /\ reason = "ArtifactIOError"
    /\ "Unexpected error" \in messages

====
